---- MODULE Spec2Model ----
(***************************************************************************)
(* A model of the gesture dispatch engine of src/src/gestures.rs:          *)
(* the direction classifier Direction::dir, the live-gesture slot          *)
(* EventHandler.event, the three handlers handle_hold_event,               *)
(* handle_pinch_event and handle_swipe_event, the event loop               *)
(* main_loop / handle_event, and Interface::open_restricted.               *)
(*                                                                         *)
(* Numbers.  An f64 delta is written as an integer: in the dispatch        *)
(* specification the integer is the value itself (a whole-valued f64), in  *)
(* the classifier specification it is a count of a power-of-two unit that  *)
(* both coordinates share.  Comparison, abs and the correctly rounded      *)
(* quotient of two such f64 do not depend on the shared unit.  A pinch     *)
(* scale is written in hundredths and an acceleration in tenths.           *)
(***************************************************************************)
EXTENDS Integers, Sequences, FiniteSets

VARIABLES
    config,   \* EventHandler.config.gestures: the binding list
    event,    \* EventHandler.event: the live-gesture slot
    pc,       \* where run_eh is: "init", "probe", "no_device" in init,
              \* "poll", "drain", "exited" in main_loop, or "panicked"
    last,     \* the event most recently inspected by the probe or a handler
    calls,    \* the collaborator calls the handling of `last` made, in order
    held,     \* the bindings whose mouse_down(1) no mouse_up_delay has followed
    fnArgs,   \* the arguments of a pure function under check
    fnRet     \* its result

vars == <<config, event, pc, last, calls, held, fnArgs, fnRet>>

(***************************************************************************)
(* Bounds of the model.                                                    *)
(***************************************************************************)
MaxBindings == 2
MaxDelta == 5
MaxScaleNum == 3
MaxFlags == 63

(***************************************************************************)
(* Option<String>: None is the empty sequence, Some(s) is <<s>>.           *)
(***************************************************************************)
None == << >>
Some(s) == <<s>>
unwrap_or_default(o) == IF o = None THEN "" ELSE o[1]

Abs(n) == IF n < 0 THEN -n ELSE n

(***************************************************************************)
(* Direction::dir.  oblique_ratio = 0.414 is ObliqueNum / ObliqueDen; the  *)
(* f64 test a / b > 0.414 on deltas of at most a few hundred units is the  *)
(* exact test ObliqueDen * a > ObliqueNum * b, because a / b then differs  *)
(* from 0.414 by far more than the rounding of the quotient.               *)
(***************************************************************************)
ObliqueNum == 414
ObliqueDen == 1000
Direction == {"Any", "N", "S", "E", "W", "NE", "NW", "SE", "SW"}

OverOblique(a, b) == ObliqueDen * a > ObliqueNum * b

\* dir reading the vertical axis as increasing upward.
dirYUp(x, y) ==
    IF Abs(x) = 0 /\ Abs(y) = 0 THEN "Any"
    ELSE IF Abs(x) > Abs(y)
    THEN LET sd == IF x < 0 THEN "W" ELSE "E" IN
         IF OverOblique(Abs(y), Abs(x))
         THEN IF sd = "W" THEN (IF y < 0 THEN "NW" ELSE "SW")
              ELSE (IF y < 0 THEN "NE" ELSE "SE")
         ELSE sd
    ELSE LET sd == IF y < 0 THEN "S" ELSE "N" IN
         IF OverOblique(Abs(x), Abs(y))
         THEN IF sd = "N" THEN (IF x < 0 THEN "NW" ELSE "NE")
              ELSE (IF x < 0 THEN "SW" ELSE "SE")
         ELSE sd

\* dir with the diagonal decided by the size of the minor delta, not by
\* its ratio to the major one.
dirAbsoluteThreshold(x, y) ==
    IF Abs(x) = 0 /\ Abs(y) = 0 THEN "Any"
    ELSE IF Abs(x) > Abs(y)
    THEN LET sd == IF x < 0 THEN "W" ELSE "E" IN
         IF Abs(y) > 1
         THEN IF sd = "W" THEN (IF y < 0 THEN "NW" ELSE "SW")
              ELSE (IF y < 0 THEN "NE" ELSE "SE")
         ELSE sd
    ELSE LET sd == IF y < 0 THEN "N" ELSE "S" IN
         IF Abs(x) > 1
         THEN IF sd = "N" THEN (IF x < 0 THEN "NW" ELSE "NE")
              ELSE (IF x < 0 THEN "SW" ELSE "SE")
         ELSE sd

dir(x, y) ==
    IF Abs(x) = 0 /\ Abs(y) = 0 THEN "Any"
    ELSE IF Abs(x) > Abs(y)
    THEN LET sd == IF x < 0 THEN "W" ELSE "E" IN
         IF OverOblique(Abs(y), Abs(x))
         THEN IF sd = "W" THEN (IF y < 0 THEN "NW" ELSE "SW")
              ELSE IF sd = "E" THEN (IF y < 0 THEN "NE" ELSE "SE")
              ELSE "Any"
         ELSE sd
    ELSE LET sd == IF y < 0 THEN "N" ELSE "S" IN
         IF OverOblique(Abs(x), Abs(y))
         THEN IF sd = "N" THEN (IF x < 0 THEN "NW" ELSE "NE")
              ELSE IF sd = "S" THEN (IF x < 0 THEN "SW" ELSE "SE")
              ELSE "Any"
         ELSE sd

InOut == {"In", "Out", "Any"}

(***************************************************************************)
(* enum Gesture and its structs, used both as a binding and as live state. *)
(* A record lists its fields in the order in which TLC keeps them, that of *)
(* their first mention in the module.                                      *)
(***************************************************************************)
Swipe(direction, fingers, update, start, end, acceleration, mouse_up_delay) ==
    [direction |-> direction, fingers |-> fingers,
     update |-> update, start |-> start, end |-> end,
     acceleration |-> acceleration, mouse_up_delay |-> mouse_up_delay,
     kind |-> "Swipe"]

Pinch(fingers, direction, update, start, end) ==
    [direction |-> direction, fingers |-> fingers,
     update |-> update, start |-> start, end |-> end, kind |-> "Pinch"]

Hold(fingers, action) ==
    [fingers |-> fingers, kind |-> "Hold", action |-> action]

Rotate(scale, fingers, delta_angle, repeat, action) ==
    [fingers |-> fingers, kind |-> "Rotate", action |-> action,
     scale |-> scale, delta_angle |-> delta_angle, repeat |-> repeat]

GestureNone == [kind |-> "None"]

\* The defaults the swipe handler writes into the live state.
DefaultAcceleration == 15
DefaultMouseUpDelay == 900

(***************************************************************************)
(* The inputs: the binding lists a configuration may hold and the events   *)
(* libinput may deliver.                                                   *)
(***************************************************************************)
FingerCounts == {3, 4}

BindingPool ==
    { Hold(3, "A"), Hold(3, "B"),
      Pinch(3, "Out", Some("zoom-in"), Some("pinch-start"), Some("pinch-end")),
      Pinch(3, "Any", None, None, None),
      Pinch(4, "In", Some("zoom-out"), None, Some("pinch-in-end")),
      Swipe("Any", 3, None, None, None, 15, 900),
      Swipe("Any", 4, Some("drag-u"), Some("drag-s"), Some("drag-e"), 20, 300),
      Swipe("N", 3, Some("up-u"), Some("up-s"), Some("up-e"), 15, 900),
      Rotate(100, 3, 15, "Oneshot", "R") }

Configs == UNION {[1..n -> BindingPool] : n \in 0..MaxBindings}

\* Pinch scales, in hundredths; ScaleOne is the 1.0 of `scale > 1.0`.
ScaleOne == 100
Scales == {50, 100, 200}

\* Swipe deltas: one for each sector, the tie |dx| = |dy| and the zero vector.
SwipeMoves ==
    { <<0, 0>>, <<3, 1>>, <<-3, -1>>, <<1, -3>>, <<-1, 3>>,
      <<3, -2>>, <<2, 2>>, <<-2, -3>>, <<-3, 2>> }

Ev(gesture, phase, fingers, dx, dy, scale, cancelled) ==
    [fingers |-> fingers, scale |-> scale, gesture |-> gesture,
     phase |-> phase, dx |-> dx, dy |-> dy, cancelled |-> cancelled]

NoEvent == Ev("None", "None", 0, 0, 0, 0, FALSE)

\* Event::Device(e), with e.device().has_capability(DeviceCapability::Gesture).
DeviceEv(has_capability) ==
    [fingers |-> 0, scale |-> 0, gesture |-> "Device", phase |-> "None",
     dx |-> 0, dy |-> 0, cancelled |-> FALSE, has_capability |-> has_capability]

(***************************************************************************)
(* The collaborator calls.  idx is the index in config.gestures of the     *)
(* binding the call is made for, a1, a2, a3 are the arguments and ok is    *)
(* the Result of an executor call.                                         *)
(***************************************************************************)
Call(op, idx, cmd, a1, a2, a3) ==
    [op |-> op, idx |-> idx, cmd |-> cmd,
     a1 |-> a1, a2 |-> a2, a3 |-> a3, ok |-> TRUE]

exec_command_from_string(i, cmd, dx, dy, scale) ==
    Call("exec", i, cmd, dx, dy, scale)
mouse_down(i, button) == Call("mouse_down", i, "", button, 0, 0)
move_mouse_relative(i, x, y) == Call("move_mouse_relative", i, "", x, y, 0)
mouse_up_delay(i, button, delay) == Call("mouse_up_delay", i, "", button, delay, 0)

\* `v as i32` of the f64 v = x * acceleration (acceleration in tenths):
\* the cast truncates toward zero and saturates at the i32 range.
I32Max == 2147483647
AsI32(x, acceleration) ==
    LET n == x * acceleration
        t == IF n < 0 THEN -((-n) \div 10) ELSE n \div 10
    IN  IF t > I32Max THEN I32Max
        ELSE IF t < -I32Max - 1 THEN -I32Max - 1
        ELSE t

\* `for i in &self.config.clone().gestures`: the calls of the loop are those
\* of its body, binding by binding in list order.
\* Flatten with the loop walking the binding list from its end.
RECURSIVE FlattenReversed(_)
FlattenReversed(ss) ==
    IF Len(ss) = 0 THEN << >> ELSE FlattenReversed(Tail(ss)) \o Head(ss)

RECURSIVE Flatten(_)
Flatten(ss) == IF Len(ss) = 0 THEN << >> ELSE Head(ss) \o Flatten(Tail(ss))


(***************************************************************************)
(* handle_hold_event                                                       *)
(***************************************************************************)
\* HoldEndCalls stopping at the first matching binding.
HoldEndFirstMatch(s) ==
    LET hit == {i \in 1..Len(config) :
                  config[i].kind = "Hold" /\ config[i].fingers = s.fingers}
    IN  IF hit = {} THEN << >>
        ELSE LET i == CHOOSE m \in hit : \A n \in hit : m <= n
             IN  <<exec_command_from_string(i, config[i].action, 0, 0, 0)>>

HoldEndCalls(s) ==
    LET body(i) ==
          LET j == config[i] IN
          IF j.kind = "Hold" /\ j.fingers = s.fingers
          THEN <<exec_command_from_string(i, j.action, 0, 0, 0)>>
          ELSE << >>
    IN  Flatten([i \in 1..Len(config) |-> body(i)])

(***************************************************************************)
(* handle_pinch_event                                                      *)
(***************************************************************************)
\* PinchBeginCalls without the direction test.
PinchBeginCallsAnyDirection(s) ==
    LET body(i) ==
          LET j == config[i] IN
          IF j.kind = "Pinch" /\ j.fingers = s.fingers
          THEN <<exec_command_from_string(i, unwrap_or_default(j.start), 0, 0, 0)>>
          ELSE << >>
    IN  Flatten([i \in 1..Len(config) |-> body(i)])

PinchBeginCalls(s) ==
    LET body(i) ==
          LET j == config[i] IN
          IF j.kind = "Pinch"
             /\ (j.direction = s.direction \/ j.direction = "Any")
             /\ j.fingers = s.fingers
          THEN <<exec_command_from_string(i, unwrap_or_default(j.start), 0, 0, 0)>>
          ELSE << >>
    IN  Flatten([i \in 1..Len(config) |-> body(i)])

\* PinchDir with scale = 1.0 counted as Out.
PinchDirOutAtOne(scale) == IF scale >= ScaleOne THEN "Out" ELSE "In"

PinchDir(scale) == IF scale > ScaleOne THEN "Out" ELSE "In"

PinchUpdateCalls(s, scale) ==
    LET body(i) ==
          LET j == config[i] IN
          IF j.kind = "Pinch"
             /\ (j.direction = PinchDir(scale) \/ j.direction = "Any")
             /\ j.fingers = s.fingers
          THEN <<exec_command_from_string(i, unwrap_or_default(j.update), 0, 0, scale)>>
          ELSE << >>
    IN  Flatten([i \in 1..Len(config) |-> body(i)])

\* PinchEndCalls without the finger-count test.
PinchEndCallsAnyFingers(s) ==
    LET body(i) ==
          LET j == config[i] IN
          IF j.kind = "Pinch"
             /\ (j.direction = s.direction \/ j.direction = "Any")
          THEN <<exec_command_from_string(i, unwrap_or_default(j.end), 0, 0, 0)>>
          ELSE << >>
    IN  Flatten([i \in 1..Len(config) |-> body(i)])

\* PinchEndCalls without the wildcard alternative of the direction test.
PinchEndCallsExactOnly(s) ==
    LET body(i) ==
          LET j == config[i] IN
          IF j.kind = "Pinch"
             /\ j.direction = s.direction
             /\ j.fingers = s.fingers
          THEN <<exec_command_from_string(i, unwrap_or_default(j.end), 0, 0, 0)>>
          ELSE << >>
    IN  Flatten([i \in 1..Len(config) |-> body(i)])

PinchEndCalls(s) ==
    LET body(i) ==
          LET j == config[i] IN
          IF j.kind = "Pinch"
             /\ (j.direction = s.direction \/ j.direction = "Any")
             /\ j.fingers = s.fingers
          THEN <<exec_command_from_string(i, unwrap_or_default(j.end), 0, 0, 0)>>
          ELSE << >>
    IN  Flatten([i \in 1..Len(config) |-> body(i)])

(***************************************************************************)
(* handle_swipe_event                                                      *)
(***************************************************************************)
\* SwipeBeginCalls running the start template of every exact-direction
\* binding of the finger count.
SwipeBeginCallsStartFires(s) ==
    LET body(i) ==
          LET j == config[i] IN
          IF j.kind = "Swipe" /\ j.fingers = s.fingers
          THEN IF j.direction = "Any"
               THEN <<mouse_down(i, 1)>>
               ELSE <<exec_command_from_string(i, unwrap_or_default(j.start), 0, 0, 0)>>
          ELSE << >>
    IN  Flatten([i \in 1..Len(config) |-> body(i)])

SwipeBeginCalls(s) ==
    LET body(i) ==
          LET j == config[i] IN
          IF j.kind = "Swipe" /\ j.fingers = s.fingers
          THEN IF j.direction = "Any"
               THEN <<mouse_down(i, 1)>>
               ELSE IF j.direction = s.direction
               THEN <<exec_command_from_string(i, unwrap_or_default(j.start), 0, 0, 0)>>
               ELSE << >>
          ELSE << >>
    IN  Flatten([i \in 1..Len(config) |-> body(i)])

\* SwipeUpdateCalls moving the pointer with the acceleration of the live
\* state, not with the binding's.
SwipeUpdateCallsLiveAcceleration(s, x, y) ==
    LET swipe_dir == dir(x, y)
        body(i) ==
          LET j == config[i] IN
          IF j.kind = "Swipe" /\ j.fingers = s.fingers
          THEN IF j.direction = "Any"
               THEN <<move_mouse_relative(i, AsI32(x, s.acceleration),
                                             AsI32(y, s.acceleration))>>
               ELSE IF j.direction = swipe_dir
               THEN <<exec_command_from_string(i, unwrap_or_default(j.update), x, y, 0)>>
               ELSE << >>
          ELSE << >>
    IN  Flatten([i \in 1..Len(config) |-> body(i)])

SwipeUpdateCalls(s, x, y) ==
    LET swipe_dir == dir(x, y)
        body(i) ==
          LET j == config[i] IN
          IF j.kind = "Swipe" /\ j.fingers = s.fingers
          THEN IF j.direction = "Any"
               THEN <<move_mouse_relative(i, AsI32(x, j.acceleration),
                                             AsI32(y, j.acceleration))>>
               ELSE IF j.direction = swipe_dir
               THEN <<exec_command_from_string(i, unwrap_or_default(j.update), x, y, 0)>>
               ELSE << >>
          ELSE << >>
    IN  Flatten([i \in 1..Len(config) |-> body(i)])

\* SwipeEndCalls running the end template of every exact-direction binding
\* of the finger count, whatever the live direction.
SwipeEndCallsAnyDirection(s) ==
    LET body(i) ==
          LET j == config[i] IN
          IF j.kind = "Swipe"
          THEN IF j.fingers = s.fingers /\ j.direction = "Any"
               THEN <<mouse_up_delay(i, 1, j.mouse_up_delay)>>
               ELSE IF j.fingers = s.fingers
               THEN <<exec_command_from_string(i, unwrap_or_default(j.end), 0, 0, 0)>>
               ELSE << >>
          ELSE << >>
    IN  Flatten([i \in 1..Len(config) |-> body(i)])

SwipeEndCalls(s) ==
    LET body(i) ==
          LET j == config[i] IN
          IF j.kind = "Swipe"
          THEN IF j.fingers = s.fingers /\ j.direction = "Any"
               THEN <<mouse_up_delay(i, 1, j.mouse_up_delay)>>
               ELSE IF j.fingers = s.fingers /\ j.direction = s.direction
               THEN <<exec_command_from_string(i, unwrap_or_default(j.end), 0, 0, 0)>>
               ELSE << >>
          ELSE << >>
    IN  Flatten([i \in 1..Len(config) |-> body(i)])

(***************************************************************************)
(* handle_event and main_loop.  An executor call returns Ok or Err; the    *)
(* `?` after it returns the Err at once, handle_event returns it to        *)
(* main_loop, and main_loop's expect panics.                               *)
(***************************************************************************)
FailAt(att, k) ==
    [n \in 1..k |-> IF n = k THEN [att[n] EXCEPT !.ok = FALSE] ELSE att[n]]

Outcomes(att) ==
    {[calls |-> att, ok |-> TRUE]}
    \cup {[calls |-> FailAt(att, k), ok |-> FALSE] :
             k \in {n \in 1..Len(att) : att[n].op = "exec"}}

\* What a handler's pointer calls cs make of the bindings whose button is
\* held: mouse_down adds its binding, mouse_up_delay removes it.
Pressed(h, cs) ==
    (h \cup {cs[k].idx : k \in {n \in 1..Len(cs) : cs[n].op = "mouse_down"}})
    \ {cs[k].idx : k \in {n \in 1..Len(cs) : cs[n].op = "mouse_up_delay"}}

\* Handled with the executor's Err dropped: the loop goes on.
HandledErrIgnored(ev, att, sOk, sErr) ==
    /\ pc = "drain"
    /\ \E o \in Outcomes(att) :
          /\ calls' = o.calls
          /\ event' = (IF o.ok THEN sOk ELSE sErr)
          /\ pc' = "drain"
          /\ held' = Pressed(held, o.calls)
    /\ last' = ev
    /\ UNCHANGED <<config, fnArgs, fnRet>>

\* One event of the batch handled: `att` are the calls the handler would make
\* if none failed, sOk the live state it leaves when it returns Ok, sErr when
\* an executor call fails.
Handled(ev, att, sOk, sErr) ==
    /\ pc = "drain"
    /\ \E o \in Outcomes(att) :
          /\ calls' = o.calls
          /\ event' = (IF o.ok THEN sOk ELSE sErr)
          /\ pc' = (IF o.ok THEN "drain" ELSE "panicked")
          /\ held' = Pressed(held, o.calls)
    /\ last' = ev
    /\ UNCHANGED <<config, fnArgs, fnRet>>

\* HoldBegin leaving the session of another kind in the live state.
HoldBeginUnlessLive(n) ==
    LET s == IF event.kind \in {"None", "Hold"} THEN Hold(n, "") ELSE event
    IN  Handled(Ev("Hold", "Begin", n, 0, 0, 0, FALSE), << >>, s, s)

HoldBegin(n) ==
    LET s == Hold(n, "")
    IN  Handled(Ev("Hold", "Begin", n, 0, 0, 0, FALSE), << >>, s, s)

\* HoldEnd run against whatever gesture is live, not only a Hold.
HoldEndAnyLive ==
    Handled(Ev("Hold", "End", 0, 0, 0, 0, FALSE),
            IF event.kind # "None" THEN HoldEndCalls(event) ELSE << >>,
            event, event)

HoldEnd ==
    Handled(Ev("Hold", "End", 0, 0, 0, 0, FALSE),
            IF event.kind = "Hold" THEN HoldEndCalls(event) ELSE << >>,
            event, event)

PinchBegin(n) ==
    LET s == Pinch(n, "Any", None, None, None)
    IN  Handled(Ev("Pinch", "Begin", n, 0, 0, 0, FALSE), PinchBeginCalls(s), s, s)

PinchUpdate(scale) ==
    Handled(Ev("Pinch", "Update", 0, 0, 0, scale, FALSE),
            IF event.kind = "Pinch" THEN PinchUpdateCalls(event, scale) ELSE << >>,
            IF event.kind = "Pinch"
            THEN Pinch(event.fingers, PinchDir(scale), None, None, None)
            ELSE event,
            event)

PinchEnd ==
    Handled(Ev("Pinch", "End", 0, 0, 0, 0, FALSE),
            IF event.kind = "Pinch" THEN PinchEndCalls(event) ELSE << >>,
            event, event)

SwipeBegin(n) ==
    LET s == Swipe("Any", n, None, None, None,
                   DefaultAcceleration, DefaultMouseUpDelay)
    IN  Handled(Ev("Swipe", "Begin", n, 0, 0, 0, FALSE), SwipeBeginCalls(s), s, s)

\* SwipeUpdate keeping the direction of the session when the update has no
\* motion.
SwipeUpdateKeepsDirection(x, y) ==
    Handled(Ev("Swipe", "Update", 0, x, y, 0, FALSE),
            IF event.kind = "Swipe" THEN SwipeUpdateCalls(event, x, y) ELSE << >>,
            IF event.kind = "Swipe"
            THEN Swipe(IF dir(x, y) = "Any" THEN event.direction ELSE dir(x, y),
                       event.fingers, None, None, None,
                       DefaultAcceleration, DefaultMouseUpDelay)
            ELSE event,
            event)

SwipeUpdate(x, y) ==
    Handled(Ev("Swipe", "Update", 0, x, y, 0, FALSE),
            IF event.kind = "Swipe" THEN SwipeUpdateCalls(event, x, y) ELSE << >>,
            IF event.kind = "Swipe"
            THEN Swipe(dir(x, y), event.fingers, None, None, None,
                       DefaultAcceleration, DefaultMouseUpDelay)
            ELSE event,
            event)

\* SwipeEnd resetting the live state to None.
SwipeEndClearsLive(cancelled) ==
    Handled(Ev("Swipe", "End", 0, 0, 0, 0, cancelled),
            IF event.kind = "Swipe" /\ ~cancelled
            THEN SwipeEndCalls(event) ELSE << >>,
            GestureNone, GestureNone)

\* SwipeEnd without the test of e.cancelled().
SwipeEndCancelledIgnored(cancelled) ==
    Handled(Ev("Swipe", "End", 0, 0, 0, 0, cancelled),
            IF event.kind = "Swipe" THEN SwipeEndCalls(event) ELSE << >>,
            event, event)

SwipeEnd(cancelled) ==
    Handled(Ev("Swipe", "End", 0, 0, 0, 0, cancelled),
            IF event.kind = "Swipe" /\ ~cancelled
            THEN SwipeEndCalls(event) ELSE << >>,
            event, event)

\* Any event that is no pinch, swipe or hold gesture event: ignored.
OtherEvent ==
    Handled(Ev("Other", "None", 0, 0, 0, 0, FALSE), << >>, event, event)

\* poll returned Ok and the first dispatch succeeded: a batch is drained.
PollReady ==
    /\ pc = "poll"
    /\ pc' = "drain"
    /\ UNCHANGED <<config, event, last, calls, held, fnArgs, fnRet>>

\* The iterator over the pending events is exhausted: handle_event returns Ok.
EndBatch ==
    /\ pc = "drain"
    /\ pc' = "poll"
    /\ UNCHANGED <<config, event, last, calls, held, fnArgs, fnRet>>

\* poll returned Err: the while loop ends and main_loop returns.
PollFails ==
    /\ pc = "poll"
    /\ pc' = "exited"
    /\ UNCHANGED <<config, event, last, calls, held, fnArgs, fnRet>>

\* input.dispatch() returned Err: its unwrap panics.
DispatchFails ==
    /\ pc \in {"probe", "poll", "drain"}
    /\ pc' = "panicked"
    /\ UNCHANGED <<config, event, last, calls, held, fnArgs, fnRet>>

(***************************************************************************)
(* init, as run_eh calls it before main_loop: init_ctx assigns the seat,   *)
(* has_gesture_device walks the pending events.  Its local `found` is      *)
(* false whenever the walk goes on, so it is false when the walk ends.     *)
(***************************************************************************)
\* udev_assign_seat returned Ok and the first dispatch succeeded.
AssignSeat ==
    /\ pc = "init"
    /\ pc' = "probe"
    /\ UNCHANGED <<config, event, last, calls, held, fnArgs, fnRet>>

\* udev_assign_seat returned Err: init's expect panics.
AssignSeatFails ==
    /\ pc = "init"
    /\ pc' = "panicked"
    /\ UNCHANGED <<config, event, last, calls, held, fnArgs, fnRet>>

\* The next pending event is Event::Device(e): found is set to the device's
\* gesture capability; if it is true has_gesture_device returns true, init
\* returns Ok and run_eh enters main_loop.
ProbeDevice(has_capability) ==
    /\ pc = "probe"
    /\ last' = DeviceEv(has_capability)
    /\ pc' = (IF has_capability THEN "poll" ELSE "probe")
    /\ UNCHANGED <<config, event, calls, held, fnArgs, fnRet>>

\* The next pending event is no device event: `continue`.
ProbeOther ==
    /\ pc = "probe"
    /\ last' = Ev("Other", "None", 0, 0, 0, 0, FALSE)
    /\ UNCHANGED <<config, event, pc, calls, held, fnArgs, fnRet>>

\* ProbeExhausted with the result of init dropped: main_loop is entered.
ProbeExhaustedEntersLoop ==
    /\ pc = "probe"
    /\ pc' = "poll"
    /\ UNCHANGED <<config, event, last, calls, held, fnArgs, fnRet>>

\* The pending events are exhausted: has_gesture_device returns found, which
\* is false, init returns Err and run_eh returns it without main_loop.
ProbeExhausted ==
    /\ pc = "probe"
    /\ pc' = "no_device"
    /\ UNCHANGED <<config, event, last, calls, held, fnArgs, fnRet>>

Idle == [fn |-> "none"]

Init ==
    /\ config \in Configs
    /\ event = GestureNone
    /\ pc = "init"
    /\ last = NoEvent
    /\ calls = << >>
    /\ held = {}
    /\ fnArgs = Idle
    /\ fnRet = Idle

Next ==
    \/ AssignSeat
    \/ AssignSeatFails
    \/ \E has_capability \in BOOLEAN : ProbeDevice(has_capability)
    \/ ProbeOther
    \/ ProbeExhausted
    \/ \E n \in FingerCounts : HoldBegin(n)
    \/ HoldEnd
    \/ \E n \in FingerCounts : PinchBegin(n)
    \/ \E scale \in Scales : PinchUpdate(scale)
    \/ PinchEnd
    \/ \E n \in FingerCounts : SwipeBegin(n)
    \/ \E m \in SwipeMoves : SwipeUpdate(m[1], m[2])
    \/ \E cancelled \in BOOLEAN : SwipeEnd(cancelled)
    \/ OtherEvent
    \/ PollReady
    \/ EndBatch
    \/ PollFails
    \/ DispatchFails

Spec == Init /\ [][Next]_vars

(***************************************************************************)
(* The classifier on its own: Direction::dir applied to (x, y) and to      *)
(* (k * x, k * y).                                                         *)
(*                                                                         *)
(* x and y are f64 given as integer counts of a unit they share: unit      *)
(* "one" is 1.0, unit "min" is the least positive f64, 2^-1074, of which   *)
(* every f64 below 2^-1021 is a whole multiple.  k = num / 2^shift is a    *)
(* positive f64.  The f64 product k * x is the exact product rounded to    *)
(* the nearest f64, ties to even: in unit "one" the exact product of these *)
(* small numbers is an f64, in unit "min" it is rounded to a whole count.  *)
(***************************************************************************)
Grid == -MaxDelta..MaxDelta
Units == {"one", "min"}
Factors == [num : 1..MaxScaleNum, shift : {0, 1}]

Pow2(shift) == IF shift = 0 THEN 1 ELSE 2

\* n / d rounded to the nearest integer, ties to the even one.
RoundHalfEven(n, d) ==
    LET a == Abs(n)
        q == a \div d
        r == a % d
        m == IF 2 * r > d \/ (2 * r = d /\ q % 2 = 1) THEN q + 1 ELSE q
    IN  IF n < 0 THEN -m ELSE m

\* The count of k * x in the unit the two products share: halves of 1.0 in
\* unit "one" when shift = 1, else the unit of x.
F64Mul(k, x, unit) ==
    IF unit = "one" THEN k.num * x
    ELSE RoundHalfEven(k.num * x, Pow2(k.shift))

\* Whether the f64 product k * x is the exact product.
F64MulExact(k, x, unit) ==
    unit = "one" \/ (k.num * x) % Pow2(k.shift) = 0

InitDir ==
    /\ config = << >>
    /\ event = GestureNone
    /\ pc = "idle"
    /\ last = NoEvent
    /\ calls = << >>
    /\ held = {}
    /\ fnArgs \in [x : Grid, y : Grid, fn : {"dir"}, unit : Units, factor : Factors]
    /\ fnRet = Idle

DirCall ==
    /\ fnArgs.fn = "dir"
    /\ fnRet = Idle
    /\ fnRet' = [fn |-> "dir",
                 plain |-> dir(fnArgs.x, fnArgs.y),
                 scaled |-> dir(F64Mul(fnArgs.factor, fnArgs.x, fnArgs.unit),
                                F64Mul(fnArgs.factor, fnArgs.y, fnArgs.unit))]
    /\ UNCHANGED <<config, event, pc, last, calls, held, fnArgs>>

SpecDir == InitDir /\ [][DirCall]_vars

(***************************************************************************)
(* Interface::open_restricted and close_restricted.  flags is the i32 that *)
(* libinput passes; read and write are what the OpenOptions is asked for.  *)
(* An OpenOptions asked for neither refuses to open (EINVAL); otherwise    *)
(* the open(2) succeeds or fails as the system decides.                    *)
(***************************************************************************)
O_WRONLY == 1
O_RDWR == 2

RECURSIVE BitAnd(_, _)
BitAnd(a, b) ==
    IF a = 0 \/ b = 0 THEN 0
    ELSE (a % 2) * (b % 2) + 2 * BitAnd(a \div 2, b \div 2)

OpenOptionsRead(flags) == FALSE \/ (BitAnd(flags, O_RDWR) # 0)

OpenOptionsWrite(flags) ==
    (BitAnd(flags, O_WRONLY) # 0) \/ (BitAnd(flags, O_RDWR) # 0)

InitOpen ==
    /\ config = << >>
    /\ event = GestureNone
    /\ pc = "idle"
    /\ last = NoEvent
    /\ calls = << >>
    /\ held = {}
    /\ fnArgs \in [fn : {"open_restricted"}, flags : 0..MaxFlags]
    /\ fnRet = Idle

open_restricted ==
    /\ fnArgs.fn = "open_restricted"
    /\ fnRet = Idle
    /\ LET read == OpenOptionsRead(fnArgs.flags)
           write == OpenOptionsWrite(fnArgs.flags)
       IN  \E result \in (IF read \/ write THEN {"fd", "os_error"} ELSE {"os_error"}) :
              fnRet' = [fn |-> "open_restricted", flags |-> fnArgs.flags,
                        read |-> read, write |-> write, result |-> result]
    /\ UNCHANGED <<config, event, pc, last, calls, held, fnArgs>>

close_restricted ==
    /\ fnRet.fn = "open_restricted"
    /\ fnRet.result = "fd"
    /\ fnRet' = [fnRet EXCEPT !.result = "closed"]
    /\ UNCHANGED <<config, event, pc, last, calls, held, fnArgs>>

SpecOpen == InitOpen /\ [][open_restricted \/ close_restricted]_vars

(***************************************************************************)
(*                               The claims                                *)
(***************************************************************************)

\* The sector algorithm as the specification words it.
Diagonal(v, h) ==
    CASE v = "N" /\ h = "E" -> "NE"
      [] v = "N" /\ h = "W" -> "NW"
      [] v = "S" /\ h = "E" -> "SE"
      [] v = "S" /\ h = "W" -> "SW"

Sector(dx, dy) ==
    LET h == IF dx < 0 THEN "W" ELSE "E"
        v == IF dy < 0 THEN "N" ELSE "S"
    IN  CASE dx = 0 /\ dy = 0 -> "Any"
          [] ~(dx = 0 /\ dy = 0) /\ Abs(dx) > Abs(dy) ->
                IF 1000 * Abs(dy) > 414 * Abs(dx) THEN Diagonal(v, h) ELSE h
          [] ~(dx = 0 /\ dy = 0) /\ Abs(dx) <= Abs(dy) ->
                IF 1000 * Abs(dx) > 414 * Abs(dy) THEN Diagonal(v, h) ELSE v

\* C7: for every (dx, dy) of the grid the classifier returns what the sector
\* algorithm of the specification returns: Any exactly for (0, 0); with
\* |dx| > |dy| the base W or E, made diagonal when |dy| / |dx| > 0.414;
\* otherwise (the tie included) the base N or S, made diagonal when
\* |dx| / |dy| > 0.414.
C7_ClassifierIsSectorAlgorithm ==
    fnRet.fn = "dir" =>
        /\ fnRet.plain = Sector(fnArgs.x, fnArgs.y)
        /\ (fnRet.plain = "Any") <=> (fnArgs.x = 0 /\ fnArgs.y = 0)

\* C7 witness: the tie (2, -2) has been classified, as NE.
C7_Witness ==
    /\ fnRet.fn = "dir"
    /\ fnArgs.x = 2 /\ fnArgs.y = -2
    /\ fnRet.plain = "NE"

\* C8 as stated: for all (dx, dy) and every k > 0 the classifier gives
\* (k * dx, k * dy) the direction it gives (dx, dy).
C8_ScaleInvariantForEveryFactor ==
    fnRet.fn = "dir" => fnRet.scaled = fnRet.plain

\* C8 amended: the classifier gives (k * dx, k * dy) the direction it gives
\* (dx, dy) for every k > 0 whose two f64 products k * dx and k * dy are
\* exact (neither is rounded).
C8_ScaleInvariantWhenProductsExact ==
    (/\ fnRet.fn = "dir"
     /\ F64MulExact(fnArgs.factor, fnArgs.x, fnArgs.unit)
     /\ F64MulExact(fnArgs.factor, fnArgs.y, fnArgs.unit))
    => fnRet.scaled = fnRet.plain

\* C8 witness: (3, -1) scaled by 1.5, both products exact, stays E.
C8_Witness ==
    /\ fnRet.fn = "dir"
    /\ fnArgs.x = 3 /\ fnArgs.y = -1
    /\ fnArgs.factor = [num |-> 3, shift |-> 1]
    /\ F64MulExact(fnArgs.factor, fnArgs.x, fnArgs.unit)
    /\ F64MulExact(fnArgs.factor, fnArgs.y, fnArgs.unit)
    /\ fnRet.plain = "E" /\ fnRet.scaled = "E"

\* C9 as stated: open_restricted asks for read access whatever the flags,
\* and for write access exactly when the flags hold O_WRONLY or O_RDWR.
C9_ReadAlwaysWriteOnRequest ==
    fnRet.fn = "open_restricted" =>
        /\ fnRet.read
        /\ fnRet.write <=> (BitAnd(fnArgs.flags, O_WRONLY) # 0
                            \/ BitAnd(fnArgs.flags, O_RDWR) # 0)

(***************************************************************************)
(* Claims about the dispatch.  `calls` holds what the handling of `last`   *)
(* invoked; in a step, the unprimed `event` is the live state the handler  *)
(* found and `event'` the one it left.                                     *)
(***************************************************************************)
Bindings == 1..Len(config)

AllOk(cs) == \A k \in 1..Len(cs) : cs[k].ok

\* cs holds one call for each binding of S and none for another binding.
OnePerBinding(cs, S) ==
    /\ Len(cs) = Cardinality(S)
    /\ \A k \in 1..Len(cs) : cs[k].idx \in S
    /\ \A i \in S : \E k \in 1..Len(cs) : cs[k].idx = i

\* The invocation c, whatever it returned.
Invoked(c) == [c EXCEPT !.ok = TRUE]

IsEvent(e, gesture, phase) == e.gesture = gesture /\ e.phase = phase

LiveFingers(s) == IF s.kind = "None" THEN 0 ELSE s.fingers
LiveDirection(s) == IF s.kind \in {"Swipe", "Pinch"} THEN s.direction ELSE "none"

\* C1: a Hold Begin(n) invokes nothing, and the Hold End that follows it
\* invokes the executor once, with the action template and 0, 0, 0, for each
\* Hold binding of finger count n and for no other binding, provided every
\* executor call succeeds.
C1_HoldAllMatchesFire ==
    [][ /\ IsEvent(last', "Hold", "Begin") => calls' = << >>
        /\ (/\ IsEvent(last, "Hold", "Begin")
            /\ IsEvent(last', "Hold", "End")
            /\ AllOk(calls'))
           => LET S == {i \in Bindings : /\ config[i].kind = "Hold"
                                         /\ config[i].fingers = last.fingers}
              IN  /\ OnePerBinding(calls', S)
                  /\ \A k \in 1..Len(calls') :
                        calls'[k] = Call("exec", calls'[k].idx,
                                         config[calls'[k].idx].action, 0, 0, 0)
      ]_vars

\* C1 witness: {3, "A"} and {3, "B"} are configured and the Hold End of a
\* three-finger hold has invoked both.
C1_Witness ==
    /\ config = <<Hold(3, "A"), Hold(3, "B")>>
    /\ IsEvent(last, "Hold", "End")
    /\ event = Hold(3, "")
    /\ Len(calls) = 2 /\ AllOk(calls)
    /\ calls[1].cmd = "A" /\ calls[2].cmd = "B"

\* C2: every collaborator call is made for a binding whose kind is the kind
\* of the event handled and whose finger count is the live finger count.
C2_CallsOnlyForKindAndFingers ==
    \A k \in 1..Len(calls) :
        /\ config[calls[k].idx].kind = last.gesture
        /\ event.kind = last.gesture
        /\ config[calls[k].idx].fingers = event.fingers

\* C2 witness: of two wildcard swipe bindings, for three and for four
\* fingers, a four-finger Swipe Begin has called for the second alone.
C2_Witness ==
    /\ Len(config) = 2
    /\ config[1].kind = "Swipe" /\ config[1].fingers = 3 /\ config[1].direction = "Any"
    /\ config[2].kind = "Swipe" /\ config[2].fingers = 4 /\ config[2].direction = "Any"
    /\ IsEvent(last, "Swipe", "Begin") /\ last.fingers = 4
    /\ Len(calls) = 1 /\ calls[1].idx = 2

\* C3: handling a cancelled Swipe End makes no collaborator call and leaves
\* the live state as it was.
C3_CancelledSwipeEndDoesNothing ==
    [][ (IsEvent(last', "Swipe", "End") /\ last'.cancelled)
        => (calls' = << >> /\ event' = event) ]_vars

\* C3 witness: a cancelled Swipe End has been handled while a swipe was live
\* for which a binding would have fired had it not been cancelled.
C3_Witness ==
    /\ IsEvent(last, "Swipe", "End") /\ last.cancelled
    /\ event.kind = "Swipe"
    /\ SwipeEndCalls(event) # << >>
    /\ calls = << >>

\* C4: the calls of a Swipe Begin(n) are one button_down(1) for each Swipe
\* binding of finger count n and direction Any, and nothing else: the
\* executor is not invoked.
C4_SwipeBeginOnlyButtonDown ==
    IsEvent(last, "Swipe", "Begin") =>
        LET S == {i \in Bindings : /\ config[i].kind = "Swipe"
                                   /\ config[i].fingers = last.fingers
                                   /\ config[i].direction = "Any"}
        IN  /\ OnePerBinding(calls, S)
            /\ \A k \in 1..Len(calls) :
                  calls[k] = Call("mouse_down", calls[k].idx, "", 1, 0, 0)

\* C4 witness: a Swipe Begin(3) with a wildcard and an exact-direction
\* binding for three fingers has pressed the button once.
C4_Witness ==
    /\ IsEvent(last, "Swipe", "Begin") /\ last.fingers = 3
    /\ \E i \in Bindings : /\ config[i].kind = "Swipe" /\ config[i].fingers = 3
                           /\ config[i].direction = "N"
                           /\ config[i].start # None
    /\ Len(calls) = 1 /\ calls[1].op = "mouse_down"

\* What C5 expects of the calls cs of a Swipe End that found live state s.
SwipeEndExpected(cs, s) ==
    LET S == {i \in Bindings :
                /\ config[i].kind = "Swipe"
                /\ config[i].fingers = LiveFingers(s)
                /\ \/ config[i].direction = "Any"
                   \/ config[i].direction = LiveDirection(s)}
    IN  /\ OnePerBinding(cs, S)
        /\ \A k \in 1..Len(cs) :
              LET j == config[cs[k].idx] IN
              Invoked(cs[k]) =
                  IF j.direction = "Any"
                  THEN Call("mouse_up_delay", cs[k].idx, "", 1, j.mouse_up_delay, 0)
                  ELSE Call("exec", cs[k].idx, unwrap_or_default(j.end), 0, 0, 0)

PinchUpdateExpected(cs, s, t, sc) ==
    LET d == IF sc > 100 THEN "Out" ELSE "In"
        S == {i \in Bindings :
                /\ config[i].kind = "Pinch"
                /\ config[i].fingers = s.fingers
                /\ config[i].direction \in {d, "Any"}}
    IN  /\ OnePerBinding(cs, S)
        /\ \A k \in 1..Len(cs) :
              Invoked(cs[k]) =
                  Call("exec", cs[k].idx,
                       unwrap_or_default(config[cs[k].idx].update), 0, 0, sc)
        /\ t.kind = "Pinch"
        /\ t.direction = d
        /\ t.fingers = s.fingers

C10_ExecutorFailureTerminatesLoop ==
    [][ /\ \A k \in 1..Len(calls') :
              ~calls'[k].ok => (k = Len(calls') /\ pc' = "panicked")
        /\ pc = "panicked" => UNCHANGED vars
      ]_vars

\* C10 witness: of two matching Hold bindings the first one's command has
\* failed; the second was not invoked and the loop has terminated.
C10_Witness ==
    /\ config = <<Hold(3, "A"), Hold(3, "B")>>
    /\ IsEvent(last, "Hold", "End")
    /\ Len(calls) = 1 /\ ~calls[1].ok
    /\ pc = "panicked"

\* A tenth-valued product n / 10 cut to a whole number, toward zero.
TowardZero(n) == IF n < 0 THEN -((-n) \div 10) ELSE n \div 10

\* What C11 expects of a Swipe Update(x, y) that found live state s and left
\* live state t after the calls cs.  With `whole` the pointer move is the
\* product itself, which then has to be a whole number; without it, the
\* product cut to a whole number toward zero.
SwipeUpdateExpected(cs, s, t, x, y, whole) ==
    LET swipe_dir == Sector(x, y)
        S == {i \in Bindings :
                /\ config[i].kind = "Swipe"
                /\ config[i].fingers = s.fingers
                /\ config[i].direction \in {"Any", swipe_dir}}
        moved(v, acceleration) ==
            IF whole THEN {m \in {TowardZero(v * acceleration)} :
                               10 * m = v * acceleration}
            ELSE {TowardZero(v * acceleration)}
    IN  /\ OnePerBinding(cs, S)
        /\ \A k \in 1..Len(cs) :
              LET j == config[cs[k].idx] IN
              IF j.direction = "Any"
              THEN /\ cs[k].op = "move_mouse_relative"
                   /\ cs[k].a1 \in moved(x, j.acceleration)
                   /\ cs[k].a2 \in moved(y, j.acceleration)
              ELSE Invoked(cs[k]) =
                      Call("exec", cs[k].idx, unwrap_or_default(j.update), x, y, 0)
        /\ t.kind = "Swipe"
        /\ t.direction = swipe_dir

PinchEndExpected(cs, s) ==
    LET S == {i \in Bindings :
                /\ config[i].kind = "Pinch"
                /\ config[i].fingers = s.fingers
                /\ config[i].direction \in {"Any", s.direction}}
    IN  /\ OnePerBinding(cs, S)
        /\ \A k \in 1..Len(cs) :
              Invoked(cs[k]) =
                  Call("exec", cs[k].idx,
                       unwrap_or_default(config[cs[k].idx].end), 0, 0, 0)

WildcardPinch(n) ==
    {i \in Bindings : /\ config[i].kind = "Pinch"
                      /\ config[i].fingers = n
                      /\ config[i].direction = "Any"}

C14_BeginOverwritesLiveState ==
    (last.phase = "Begin" /\ last.gesture \in {"Hold", "Pinch", "Swipe"}) =>
        /\ event.kind = last.gesture
        /\ event.fingers = last.fingers
        /\ event.kind \in {"Pinch", "Swipe"} => event.direction = "Any"

\* C14 witness: a Hold Begin(4) has overwritten the live state of a swipe
\* whose button was still held, its End not having come.
C14_Witness ==
    /\ IsEvent(last, "Hold", "Begin") /\ last.fingers = 4
    /\ event = Hold(4, "")
    /\ held # {}

\* C15: no End event, of a hold, a pinch or a swipe, cancelled or not,
\* changes the live state; and an Update that follows the End of its kind
\* while that kind is still live is dispatched against the retained finger
\* count: every call it makes is for a binding of that finger count, and if
\* all its calls succeed it does what an Update within the session does.
C15_LiveStatePersistsAcrossEnd ==
    [][ /\ last'.phase = "End" => event' = event
        /\ (/\ last.phase = "End" /\ last'.phase = "Update"
            /\ last'.gesture = last.gesture /\ event.kind = last.gesture)
           => /\ \A k \in 1..Len(calls') :
                    config[calls'[k].idx].fingers = event.fingers
              /\ event'.fingers = event.fingers
              /\ (AllOk(calls') /\ event.kind = "Pinch")
                    => PinchUpdateExpected(calls', event, event', last'.scale)
              /\ (AllOk(calls') /\ event.kind = "Swipe")
                    => SwipeUpdateExpected(calls', event, event',
                                           last'.dx, last'.dy, FALSE)
      ]_vars

\* C15 witness: a Swipe Update has moved the pointer for a wildcard binding
\* whose button is no longer held: the End of the session has been handled,
\* no Begin has come since, and the update was dispatched all the same.
C15_Witness ==
    /\ IsEvent(last, "Swipe", "Update")
    /\ event.kind = "Swipe" /\ event.fingers = 4
    /\ \E k \in 1..Len(calls) : /\ calls[k].op = "move_mouse_relative"
                                /\ config[calls[k].idx].fingers = 4
                                /\ calls[k].idx \notin held

\* The device notification e advertises gesture capability.
GestureDevice(e) == e.gesture = "Device" /\ e.has_capability

\* C16: the event loop is entered only from the probe, at a device
\* notification whose device advertises gesture capability, and the probe
\* succeeds at the first such notification; the probe fails only when the
\* pending events are exhausted with no such device found; after the failure
\* nothing happens any more, and a collaborator is called or the live state
\* written only inside the loop.
C16_LoopOnlyAfterProbe ==
    [][ /\ (pc' \in {"poll", "drain"} /\ pc \notin {"poll", "drain"})
           => (pc = "probe" /\ GestureDevice(last'))
        /\ (pc = "probe" /\ GestureDevice(last')) => pc' = "poll"
        /\ (pc' = "no_device" /\ pc # "no_device")
           => (pc = "probe" /\ ~GestureDevice(last))
        /\ pc = "no_device" => UNCHANGED vars
        /\ (calls' # calls \/ event' # event) => pc = "drain"
        /\ pc \in {"init", "probe", "no_device"} => (calls = << >> /\ event = GestureNone)
      ]_vars

\* C16 witness: the probe has inspected a device without gesture capability,
\* the pending events are exhausted and init has failed: the loop was not
\* entered and no event dispatched.
C16_Witness ==
    /\ pc = "no_device"
    /\ last = DeviceEv(FALSE)
    /\ calls = << >> /\ event = GestureNone

\* C17 as stated: once a Swipe End has been handled and the loop goes on,
\* every button_down(1) issued for a wildcard Swipe binding has been followed
\* by a button_up_after_delay(1, .) for that binding: no binding's button is
\* left held, also when the End was cancelled or another gesture's Begin
\* came before it.
C17_DragBalancedAfterEnd ==
    (IsEvent(last, "Swipe", "End") /\ pc # "panicked") => held = {}

\* C18: an Update or End whose kind is not the kind of the live state (the
\* live state None included) makes no collaborator call and leaves the live
\* state as it was, and so does every event that is no hold, pinch or swipe
\* gesture event.
C18_MismatchedEventChangesNothing ==
    [][ /\ (last'.phase \in {"Update", "End"} /\ last'.gesture # event.kind)
           => (calls' = << >> /\ event' = event /\ held' = held)
        /\ last'.gesture \notin {"Hold", "Pinch", "Swipe"}
           => (calls' = << >> /\ event' = event /\ held' = held)
      ]_vars

\* C18 witness: a Pinch Update of scale 2.0 has been handled while a
\* three-finger swipe was live; a wildcard Pinch binding of three fingers is
\* configured and nothing was called.
C18_Witness ==
    /\ IsEvent(last, "Pinch", "Update") /\ last.scale = 200
    /\ event.kind = "Swipe" /\ event.fingers = 3
    /\ \E i \in Bindings : config[i] = Pinch(3, "Any", None, None, None)
    /\ calls = << >>

\* C19: the calls made for an event are in the order of the binding list: a
\* call for a binding comes before every call for a binding further down
\* the list, executor and pointer calls alike.
C19_CallsInBindingListOrder ==
    \A k \in 1..Len(calls) : \A m \in 1..Len(calls) :
        k < m => calls[k].idx < calls[m].idx

\* C19 witness: an upward Swipe Update with a wildcard binding listed before
\* an N binding has moved the pointer first and invoked the executor second.
C19_Witness ==
    /\ IsEvent(last, "Swipe", "Update")
    /\ Len(calls) = 2
    /\ calls[1].op = "move_mouse_relative" /\ calls[1].idx = 1
    /\ calls[2].op = "exec" /\ calls[2].idx = 2

\* No call of cs runs a command: each is the button release of a wildcard
\* binding.
NoEndTemplate(cs) ==
    \A k \in 1..Len(cs) : /\ cs[k].op = "mouse_up_delay"
                          /\ config[cs[k].idx].direction = "Any"

\* C20: a Swipe End that is not cancelled invokes the end template of no
\* exact-direction binding when the live direction is Any, and the live
\* direction of a Swipe is Any after a Swipe Begin and after a Swipe
\* Update(0, 0), whatever it was before, and is changed by no event but a
\* Swipe Begin or Update; so an End that follows an Update(0, 0), or a Begin,
\* runs no end template.
C20_EndUsesLastUpdateOnly ==
    [][ /\ (/\ IsEvent(last', "Swipe", "End") /\ ~last'.cancelled
            /\ event.kind = "Swipe" /\ event.direction = "Any")
           => NoEndTemplate(calls')
        /\ (/\ IsEvent(last', "Swipe", "Update") /\ event.kind = "Swipe"
            /\ last'.dx = 0 /\ last'.dy = 0)
           => (event'.kind = "Swipe" /\ event'.direction = "Any")
        /\ IsEvent(last', "Swipe", "Begin")
           => (event'.kind = "Swipe" /\ event'.direction = "Any")
        /\ (/\ event.kind = "Swipe" /\ event'.kind = "Swipe"
            /\ ~IsEvent(last', "Swipe", "Begin")
            /\ ~IsEvent(last', "Swipe", "Update"))
           => event'.direction = event.direction
        /\ (/\ \/ IsEvent(last, "Swipe", "Begin")
               \/ (IsEvent(last, "Swipe", "Update") /\ last.dx = 0 /\ last.dy = 0)
            /\ IsEvent(last', "Swipe", "End"))
           => NoEndTemplate(calls')
      ]_vars

\* C20 witness: a Swipe End that was not cancelled has found a three-finger
\* swipe live with direction Any; an N binding of three fingers with an end
\* template is configured, and only the button release was called.
C20_Witness ==
    /\ config = <<Swipe("Any", 3, None, None, None, 15, 900),
                  Swipe("N", 3, Some("up-u"), Some("up-s"), Some("up-e"), 15, 900)>>
    /\ IsEvent(last, "Swipe", "End") /\ ~last.cancelled
    /\ event.kind = "Swipe" /\ event.fingers = 3 /\ event.direction = "Any"
    /\ calls = <<Call("mouse_up_delay", 1, "", 1, 900, 0)>>

====
